---- MODULE Spec2Model ----
(***************************************************************************)
(* munsellkit: conversions between Munsell specifications                  *)
(* (hue_shade, value, chroma, hue_index) and UP LAB / munsellinterpol      *)
(* coordinates.  The library is stateless: every public function is an     *)
(* operator below, and the state machine is a caller that picks arguments, *)
(* makes one call, observes the result and returns to idle.                *)
(*                                                                         *)
(* Numbers.  Python floats are carried as integers in millionths (U): the  *)
(* hue_shade 2.5 is 2500000.  hue_index is carried in the same unit so     *)
(* that a non-integral index can be passed.  NaN and None are sentinels    *)
(* with Python's comparison rules (every comparison with NaN is false).    *)
(***************************************************************************)
EXTENDS Integers, Sequences, FiniteSets, TLC

U == 10^6

NaN == -999999999

None == -999999998

IsNaN(x) == x = NaN

\* Python's a < b and a <= b on floats: false whenever an operand is NaN.
PyLt(a, b) == ~IsNaN(a) /\ ~IsNaN(b) /\ a < b

PyLe(a, b) == ~IsNaN(a) /\ ~IsNaN(b) /\ a <= b

\* Python's min(a, b): b replaces a only if b < a.
PyMin(a, b) == IF PyLt(b, a) THEN b ELSE a

\* Python's max(a, b): b replaces a only if b > a.
PyMax(a, b) == IF PyLt(a, b) THEN b ELSE a

\* Python's int(x) of a float: truncation towards zero, as a plain integer.
PyInt(x) == IF x >= 0 THEN x \div U ELSE -((-x) \div U)

\* Python's divmod(x, m) for m > 0: floor quotient and non-negative remainder.
PyDivMod(x, m) == <<x \div m, x % m>>

\* The nearest multiple of step; an exact tie goes to the even multiple.
RoundHalfEven(x, step) ==
    LET q == x \div step
        r == x % step
    IN  IF 2 * r < step THEN q * step
        ELSE IF 2 * r > step THEN (q + 1) * step
        ELSE IF q % 2 = 0 THEN q * step ELSE (q + 1) * step

\* The nearest multiple of step; a tie goes up iff `up`.
RoundTie(x, step, up) ==
    LET q == x \div step
        r == x % step
    IN  IF 2 * r < step THEN q * step
        ELSE IF 2 * r > step THEN (q + 1) * step
        ELSE IF up THEN (q + 1) * step ELSE q * step

\* Python's round(x, ndigits).  With ndigits <= 0 a decimal tie is exactly
\* representable and goes to even.  With ndigits >= 1 a decimal tie such as
\* 0.35 is not a binary float: the stored value lies on one side of it, so
\* the result is either neighbour (`up` is that side).
PyRoundN(x, ndigits, up) ==
    IF IsNaN(x) THEN NaN
    ELSE IF ndigits <= 0 THEN RoundHalfEven(x, 10^(6 - ndigits))
    ELSE RoundTie(x, 10^(6 - ndigits), up)

\* Float addition: NaN if an operand is NaN.
PyAdd(a, b) == IF IsNaN(a) \/ IsNaN(b) THEN NaN ELSE a + b

Ok(v) == [exc |-> "", val |-> v]

Raise(e) == [exc |-> e, val |-> <<>>]

\* The `rounding` argument: an int, None, or a str.
RoundInt(n) == [kind |-> "int", n |-> n, s |-> ""]

RoundNone == [kind |-> "none", n |-> 0, s |-> ""]

RoundStr(s) == [kind |-> "str", n |-> 0, s |-> s]

(***************************************************************************)
(* munsellkit.py                                                           *)
(***************************************************************************)
COLORLAB_HUE_NAMES == <<"B", "BG", "G", "GY", "Y", "YR", "R", "RP", "P", "PB">>

\* normalized_hue without the step `if hue_shade == 0` (no wrap to 10).
normalized_hue_nowrap(hue_index, hue_shade, rounding, up) ==
    IF IsNaN(hue_index) THEN Ok(<<NaN, NaN>>)
    ELSE LET h == PyInt(hue_index) IN
      IF h = 0 THEN Ok(<<NaN, NaN>>)
      ELSE IF h < 1 \/ h > 10 THEN Raise("ValueError")
      ELSE IF hue_shade = None THEN Raise("ValueError")
      ELSE IF rounding.kind = "str" /\ rounding.s # "renotation" THEN Raise("ValueError")
      ELSE IF rounding.kind = "str" /\ IsNaN(hue_shade) THEN Raise("ValueError")
      ELSE LET rounded == IF rounding.kind = "str" THEN RoundHalfEven(hue_shade, 2500000)
                          ELSE IF rounding.kind = "int" THEN PyRoundN(hue_shade, rounding.n, up)
                          ELSE hue_shade
               clamped == PyMax(0, PyMin(rounded, 10 * U))
           IN  Ok(<<h * U, clamped>>)

\* normalized_hue taking rounding='renotation' as no rounding.
normalized_hue_no_renotation(hue_index, hue_shade, rounding, up) ==
    IF IsNaN(hue_index) THEN Ok(<<NaN, NaN>>)
    ELSE LET h == PyInt(hue_index) IN
      IF h = 0 THEN Ok(<<NaN, NaN>>)
      ELSE IF h < 1 \/ h > 10 THEN Raise("ValueError")
      ELSE IF hue_shade = None THEN Raise("ValueError")
      ELSE IF rounding.kind = "str" /\ rounding.s # "renotation" THEN Raise("ValueError")
      ELSE IF rounding.kind = "str" /\ IsNaN(hue_shade) THEN Raise("ValueError")
      ELSE LET rounded == IF rounding.kind = "int" THEN PyRoundN(hue_shade, rounding.n, up)
                          ELSE hue_shade
               clamped == PyMax(0, PyMin(rounded, 10 * U))
           IN  IF clamped = 0 THEN Ok(<<((h % 10) + 1) * U, 10 * U>>)
               ELSE Ok(<<h * U, clamped>>)

\* normalized_hue(hue_index, hue_shade=None, rounding=1) -> (hue_index, hue_shade)
normalized_hue(hue_index, hue_shade, rounding, up) ==
    IF IsNaN(hue_index) THEN Ok(<<NaN, NaN>>)
    ELSE LET h == PyInt(hue_index) IN
      IF h = 0 THEN Ok(<<NaN, NaN>>)
      ELSE IF h < 1 \/ h > 10 THEN Raise("ValueError")
      ELSE IF hue_shade = None THEN Raise("ValueError")
      ELSE IF rounding.kind = "str" /\ rounding.s # "renotation" THEN Raise("ValueError")
      \* round(nan / 2.5) raises ValueError (NaN has no integer)
      ELSE IF rounding.kind = "str" /\ IsNaN(hue_shade) THEN Raise("ValueError")
      ELSE LET rounded == IF rounding.kind = "str" THEN RoundHalfEven(hue_shade, 2500000)
                          ELSE IF rounding.kind = "int" THEN PyRoundN(hue_shade, rounding.n, up)
                          ELSE hue_shade
               clamped == PyMax(0, PyMin(rounded, 10 * U))
           IN  IF clamped = 0 THEN Ok(<<((h % 10) + 1) * U, 10 * U>>)
               ELSE Ok(<<h * U, clamped>>)

\* normalized_color without the step `if value == 0` (no coercion to neutral).
normalized_color_keep_zero(spec, rounding, ups) ==
    LET nh == normalized_hue(spec[4], spec[1], rounding, "h" \in ups) IN
    IF nh.exc # "" THEN nh
    ELSE IF rounding.kind = "str" /\ rounding.s # "renotation" THEN Raise("ValueError")
    ELSE IF rounding.kind = "str" /\ (IsNaN(spec[2]) \/ IsNaN(spec[3])) THEN Raise("ValueError")
    ELSE LET ren == rounding.kind = "str"
             c1 == IF ren THEN RoundHalfEven(spec[3], 2 * U)
                   ELSE IF rounding.kind = "int" THEN PyRoundN(spec[3], rounding.n, "c" \in ups)
                   ELSE spec[3]
             v1 == IF ren THEN (IF c1 < 2 * U THEN 0 ELSE RoundHalfEven(spec[2], U))
                   ELSE IF rounding.kind = "int" THEN PyRoundN(spec[2], rounding.n, "v" \in ups)
                   ELSE spec[2]
             value == PyMax(IF ren THEN U ELSE 0, PyMin(v1, 10 * U))
             chroma == PyMax(IF ren THEN 2 * U ELSE 0, PyMin(c1, 50 * U))
         IN  Ok(<<nh.val[2], value, chroma, nh.val[1]>>)

\* normalized_color(spec, rounding=1, truncate=True, out='spec') -> norm_spec,
\* as (hue_shade, value, chroma, hue_index).  `ups` names the roundings
\* ("h", "v", "c") whose decimal tie, if any, falls upwards.
normalized_color(spec, rounding, ups) ==
    LET nh == normalized_hue(spec[4], spec[1], rounding, "h" \in ups) IN
    IF nh.exc # "" THEN nh
    ELSE IF rounding.kind = "str" /\ rounding.s # "renotation" THEN Raise("ValueError")
    \* round(value) and round(chroma / 2) raise ValueError on NaN
    ELSE IF rounding.kind = "str" /\ (IsNaN(spec[2]) \/ IsNaN(spec[3])) THEN Raise("ValueError")
    ELSE LET ren == rounding.kind = "str"
             c1 == IF ren THEN RoundHalfEven(spec[3], 2 * U)
                   ELSE IF rounding.kind = "int" THEN PyRoundN(spec[3], rounding.n, "c" \in ups)
                   ELSE spec[3]
             \* renotation: "Coerce to neutral" sets value = 0 when chroma < 2
             v1 == IF ren THEN (IF c1 < 2 * U THEN 0 ELSE RoundHalfEven(spec[2], U))
                   ELSE IF rounding.kind = "int" THEN PyRoundN(spec[2], rounding.n, "v" \in ups)
                   ELSE spec[2]
             min_value == IF ren THEN U ELSE 0
             min_chroma == IF ren THEN 2 * U ELSE 0
             value == PyMax(min_value, PyMin(v1, 10 * U))
             chroma == PyMax(min_chroma, PyMin(c1, 50 * U))
         IN  IF value = 0 THEN Ok(<<NaN, value, NaN, NaN>>)
             ELSE Ok(<<nh.val[2], value, chroma, nh.val[1]>>)

\* hue_name_from_hue_index(hue_index) -> str
hue_name_from_hue_index(hue_index) ==
    LET hi == IF IsNaN(hue_index) THEN 0 ELSE hue_index
        h == PyInt(hi)
    IN  IF h * U # hi \/ h < 0 \/ h > 10 THEN Raise("ValueError")
        ELSE IF h = 0 THEN Ok("N")
        ELSE Ok(COLORLAB_HUE_NAMES[h])

\* astm_hue with the hue table read one family off (18 - h for 17 - h).
astm_hue_shifted(hue_index, hue_shade) ==
    LET hi == IF IsNaN(hue_index) THEN 0 ELSE hue_index
        h == PyInt(hi)
    IN  IF h * U # hi \/ h < 0 \/ h > 10 THEN Raise("ValueError")
        ELSE IF h = 0 THEN Ok(0)
        ELSE Ok(PyAdd(10 * ((18 - h) % 10) * U, IF hue_shade = None THEN 0 ELSE hue_shade))

\* astm_hue(hue_index, hue_shade=None) -> number
astm_hue(hue_index, hue_shade) ==
    LET hi == IF IsNaN(hue_index) THEN 0 ELSE hue_index
        h == PyInt(hi)
    IN  IF h * U # hi \/ h < 0 \/ h > 10 THEN Raise("ValueError")
        ELSE IF h = 0 THEN Ok(0)
        ELSE Ok(PyAdd(10 * ((17 - h) % 10) * U, IF hue_shade = None THEN 0 ELSE hue_shade))

\* The names bound in hue_index_from_hue_name's frame when its body starts:
\* its one parameter.
hue_index_from_hue_name_locals == {"hue_name"}

IndexOf(seq, x) == CHOOSE i \in 1..Len(seq) : seq[i] = x

\* hue_index_from_hue_name(hue_name) -> number.  The first statement,
\* `name = name.strip().upper()`, reads the local `name`, which is assigned
\* in the body and so is a local, before anything is bound to it.
hue_index_from_hue_name(hue_name) ==
    IF "name" \notin hue_index_from_hue_name_locals THEN Raise("UnboundLocalError")
    ELSE IF hue_name = "N" THEN Ok(0)
    ELSE IF \E i \in 1..Len(COLORLAB_HUE_NAMES) : COLORLAB_HUE_NAMES[i] = hue_name
         THEN Ok(IndexOf(COLORLAB_HUE_NAMES, hue_name) * U)
    ELSE Raise("ValueError")

\* Strings are sequences of one-character strings.
DigitChars == <<"0", "1", "2", "3", "4", "5", "6", "7", "8", "9">>

Chars(name) ==
    CASE name = "BG" -> <<"B", "G">>
      [] name = "GY" -> <<"G", "Y">>
      [] name = "YR" -> <<"Y", "R">>
      [] name = "RP" -> <<"R", "P">>
      [] name = "PB" -> <<"P", "B">>
      [] OTHER -> <<name>>

RECURSIVE NatStr(_)
NatStr(n) ==
    IF n < 10 THEN <<DigitChars[n + 1]>>
    ELSE NatStr(n \div 10) \o <<DigitChars[(n % 10) + 1]>>

\* The d low decimal digits of f, zero-padded.
RECURSIVE FracStr(_, _)
FracStr(f, d) ==
    IF d = 0 THEN <<>>
    ELSE FracStr(f \div 10, d - 1) \o <<DigitChars[(f % 10) + 1]>>

\* '{0:.{1}f}'.format(x, d) for x >= 0 or NaN and 0 <= d <= 6: x rounded to
\* d decimals.  A tie at d = 0 is exact in binary and goes to even; a decimal
\* tie at d >= 1 is not, and goes up iff `up`.
PyFormatF(x, d, up) ==
    IF IsNaN(x) THEN <<"n", "a", "n">>
    ELSE LET q == PyRoundN(x, d, up) \div 10^(6 - d)
         IN  IF d = 0 THEN NatStr(q)
             ELSE NatStr(q \div 10^d) \o <<".">> \o FracStr(q % 10^d, d)

RECURSIVE DropZeros(_)
DropZeros(str) ==
    IF str # <<>> /\ Head(str) = "0" THEN DropZeros(Tail(str)) ELSE str

\* re.sub(r'\.[0]+', '', str): every '.' followed by one or more '0' is
\* removed together with those zeros.
RECURSIVE re_sub_dot_zeros(_)
re_sub_dot_zeros(str) ==
    IF str = <<>> THEN <<>>
    ELSE IF Head(str) = "." /\ Len(str) >= 2 /\ str[2] = "0"
         THEN re_sub_dot_zeros(DropZeros(Tail(str)))
         ELSE <<Head(str)>> \o re_sub_dot_zeros(Tail(str))

Truncated(str, truncate) == IF truncate THEN re_sub_dot_zeros(str) ELSE str

\* hue_data(hue_index, hue_shade, decimals, truncate) -> dict
hue_data(hue_index, hue_shade, decimals, truncate, up) ==
    IF IsNaN(hue_index) \/ hue_index = 0
    THEN Ok([hue_name |-> "N", total_hue |-> <<"N">>, astm_hue |-> NaN])
    ELSE IF hue_name_from_hue_index(hue_index).exc # ""
         THEN hue_name_from_hue_index(hue_index)
         \* '{0:.{1}f}' with a negative precision
         ELSE IF decimals < 0 THEN Raise("ValueError")
         ELSE Ok([hue_name |-> hue_name_from_hue_index(hue_index).val,
                  total_hue |-> Truncated(PyFormatF(hue_shade, decimals, up)
                                            \o Chars(hue_name_from_hue_index(hue_index).val),
                                          truncate),
                  astm_hue |-> astm_hue(hue_index, hue_shade).val])

\* hue_decimals, value_decimals, chroma_decimals of normalized_color.
color_decimals(rounding) ==
    IF rounding.kind = "str" THEN <<1, 0, 0>>
    ELSE IF rounding.kind = "int" THEN <<rounding.n, rounding.n, rounding.n>>
    ELSE <<2, 2, 2>>

\* cv of normalized_color, before truncation.
color_cv(norm_spec, decimals, ups) ==
    IF IsNaN(norm_spec[4]) THEN PyFormatF(norm_spec[2], decimals[2], "v" \in ups)
    ELSE PyFormatF(norm_spec[2], decimals[2], "v" \in ups) \o <<"/">>
            \o PyFormatF(norm_spec[3], decimals[3], "c" \in ups)

\* The tail of normalized_color with out='all', from norm_spec on.
color_all(norm_spec, decimals, truncate, ups, data) ==
    IF data.exc # "" THEN data
    ELSE IF decimals[2] < 0 THEN Raise("ValueError")
    ELSE Ok([color |-> data.val.total_hue \o <<" ">>
                          \o Truncated(color_cv(norm_spec, decimals, ups), truncate),
             spec |-> norm_spec,
             data |-> data.val])

color_of(ns, decimals, truncate, ups) ==
    IF ns.exc # "" THEN ns
    ELSE color_all(ns.val, decimals, truncate, ups,
                   hue_data(ns.val[4], ns.val[1], decimals[1], truncate, "h" \in ups))

\* normalized_color(spec, rounding, truncate, out='all')
\*   -> (norm_color, norm_spec, data)
normalized_color_all(spec, rounding, truncate, ups) ==
    color_of(normalized_color(spec, rounding, ups), color_decimals(rounding), truncate, ups)

\* normalized_color(spec, rounding, truncate, out): `if out == 'spec': return
\* norm_spec` comes before hue_data and the formatting, `if out == 'color':
\* return norm_color` after them; any other out returns the three.
normalized_color_out(spec, rounding, truncate, out, ups) ==
    IF out = "spec" THEN normalized_color(spec, rounding, ups)
    ELSE LET all == normalized_color_all(spec, rounding, truncate, ups)
         IN  IF all.exc # "" THEN all
             ELSE IF out = "color" THEN Ok(all.val.color)
             ELSE all

(***************************************************************************)
(* lindbloom.py                                                            *)
(*                                                                         *)
(* A UP LAB point is <<l, rad, ang>>: l in hundredths, and (a_star, b_star) in     *)
(* polar form, rad = sqrt(a_star^2 + b_star^2) in units of 10^-5 and ang the       *)
(* direction atan2(b_star, a_star) as a step of 360/AngleSteps degrees, which is   *)
(* what uplab_to_munsell_specification reads off (math.sqrt, math.atan2)   *)
(* and munsell_specification_to_uplab rebuilds (math.cos, math.sin).       *)
(***************************************************************************)
VALUE_FACTOR_E4 == 99167

CHROMA_FACTOR == 50

\* 10^4 * cos(360 * j / 160 degrees), j = 0..159, at index j + 1.
COS_E4 == <<
    10000, 9992, 9969, 9931, 9877, 9808, 9724, 9625, 9511, 9382, 9239, 9081, 8910, 8725, 8526, 8315,
    8090, 7853, 7604, 7343, 7071, 6788, 6494, 6191, 5878, 5556, 5225, 4886, 4540, 4187, 3827, 3461,
    3090, 2714, 2334, 1951, 1564, 1175, 785, 393, 0, -393, -785, -1175, -1564, -1951, -2334, -2714,
    -3090, -3461, -3827, -4187, -4540, -4886, -5225, -5556, -5878, -6191, -6494, -6788, -7071, -7343, -7604, -7853,
    -8090, -8315, -8526, -8725, -8910, -9081, -9239, -9382, -9511, -9625, -9724, -9808, -9877, -9931, -9969, -9992,
    -10000, -9992, -9969, -9931, -9877, -9808, -9724, -9625, -9511, -9382, -9239, -9081, -8910, -8725, -8526, -8315,
    -8090, -7853, -7604, -7343, -7071, -6788, -6494, -6191, -5878, -5556, -5225, -4886, -4540, -4187, -3827, -3461,
    -3090, -2714, -2334, -1951, -1564, -1175, -785, -393, 0, 393, 785, 1175, 1564, 1951, 2334, 2714,
    3090, 3461, 3827, 4187, 4540, 4886, 5225, 5556, 5878, 6191, 6494, 6788, 7071, 7343, 7604, 7853,
    8090, 8315, 8526, 8725, 8910, 9081, 9239, 9382, 9511, 9625, 9724, 9808, 9877, 9931, 9969, 9992 >>

AngleSteps == Len(COS_E4)

\* The hue (in millionths) of one angle step: hue_angle * 100 / 360.
HueStep == (100 * U) \div AngleSteps

Cos(ang) == COS_E4[(ang % AngleSteps) + 1]

Sin(ang) == COS_E4[((ang - AngleSteps \div 4) % AngleSteps) + 1]

RoundDiv(x, d) == (2 * x + d) \div (2 * d)

\* (a_star, b_star) of a point, in units of 10^-4: cos(hue_angle) * radius and
\* sin(hue_angle) * radius.
Cart(lab) == <<RoundDiv(lab[2] * Cos(lab[3]), 100000), RoundDiv(lab[2] * Sin(lab[3]), 100000)>>

\* uplab_to_munsell_specification with the gray test `chroma <= 0.01`.
uplab_to_munsell_specification_gray_le(lab) ==
    LET value == VALUE_FACTOR_E4 * lab[1]
        chroma == CHROMA_FACTOR * lab[2] * 10
    IN  IF chroma <= 10000 THEN <<NaN, value, NaN, NaN>>
        ELSE LET hue_0 == lab[3] * HueStep
                 hue1 == hue_0 + 2500000
                 hue == IF hue1 > 100 * U THEN hue1 - 100 * U ELSE hue1
                 dm == PyDivMod(hue, 10 * U)
                 hue_index == ((17 - dm[1]) % 10) + 1
                 nh == normalized_hue(hue_index * U, dm[2], RoundNone, FALSE)
             IN  <<nh.val[2], value, chroma, nh.val[1]>>

\* uplab_to_munsell_specification without `hue = hue_0 + 2.5`.
uplab_to_munsell_specification_no_offset(lab) ==
    LET value == VALUE_FACTOR_E4 * lab[1]
        chroma == CHROMA_FACTOR * lab[2] * 10
    IN  IF chroma < 10000 THEN <<NaN, value, NaN, NaN>>
        ELSE LET hue == lab[3] * HueStep
                 dm == PyDivMod(hue, 10 * U)
                 hue_index == ((17 - dm[1]) % 10) + 1
                 nh == normalized_hue(hue_index * U, dm[2], RoundNone, FALSE)
             IN  <<nh.val[2], value, chroma, nh.val[1]>>

\* uplab_to_munsell_specification(lab) -> spec
uplab_to_munsell_specification(lab) ==
    LET value == VALUE_FACTOR_E4 * lab[1]
        chroma == CHROMA_FACTOR * lab[2] * 10
    IN  \* Grays: chroma < 0.01
        IF chroma < 10000 THEN <<NaN, value, NaN, NaN>>
        ELSE LET hue_0 == lab[3] * HueStep
                 hue1 == hue_0 + 2500000
                 hue == IF hue1 > 100 * U THEN hue1 - 100 * U ELSE hue1
                 dm == PyDivMod(hue, 10 * U)
                 hue_index == ((17 - dm[1]) % 10) + 1
                 nh == normalized_hue(hue_index * U, dm[2], RoundNone, FALSE)
             IN  <<nh.val[2], value, chroma, nh.val[1]>>

\* munsell_specification_to_uplab(spec) -> lab
munsell_specification_to_uplab(spec) ==
    IF IsNaN(spec[1]) THEN <<spec[2] \div VALUE_FACTOR_E4, 0, 0>>
    ELSE LET hue_base == (18 - PyInt(spec[4])) % 10
             hue == hue_base * 10 * U + spec[1]
             hue_0 == IF hue - 2500000 < 0 THEN hue - 2500000 + 100 * U ELSE hue - 2500000
             l == spec[2] \div VALUE_FACTOR_E4
             radius == spec[3] \div (CHROMA_FACTOR * 10)
         IN  <<l, radius, (hue_0 \div HueStep) % AngleSteps>>

\* v_ren without `v_ren = round(v_ren)`.
v_ren_unrounded(value) ==
    IF PyLt(value, U) THEN U
    ELSE IF PyLt(9 * U, value) /\ PyLt(value, 9900000) THEN 9 * U
    ELSE value

\* The renotation value of uplab_to_renotation_specification.
v_ren(value) ==
    LET v == IF PyLt(value, U) THEN U
             ELSE IF PyLt(9 * U, value) /\ PyLt(value, 9900000) THEN 9 * U
             ELSE value
    IN  RoundHalfEven(v, U)

\* distance_sq = (at - a_star)^2 + (bt - b_star)^2 between the point t of
\* munsell_specification_to_uplab(test_spec) and the target, less the
\* target's own a_star^2 + b_star^2 (the same for every test spec), by the
\* law of cosines: R^2 - 2 r R cos(angle between them), R and r the radii in
\* units of 10^-4.  Scaled by 12.5; R is a multiple of 400 (chroma is even).
SqDist(t, target) ==
    LET R == t[2] \div 10
        r == target[2] \div 10
    IN  (25 * R * R) \div 2 - r * ((R * Cos(t[3] - target[3])) \div 400)

\* One pass of the loop body: the test spec with its distance to the target.
renotation_test(test_spec, target) ==
    [spec |-> test_spec,
     distance_sq |-> SqDist(munsell_specification_to_uplab(test_spec), target)]

\* The four test specs, in the order of the loops `for ct in [c0, c1]`,
\* `for ht in [h0, h1]`, each with its distance to (a_star, b_star).
renotation_candidates(spec, lab) ==
    LET c0 == PyDivMod(spec[3], 2 * U)[1] * 2 * U
        h0 == PyDivMod(spec[1], 2500000)[1] * 2500000
    IN  [i \in 1..4 |->
            renotation_test(
                normalized_color(<<h0 + ((i - 1) % 2) * 2500000, spec[2],
                                   c0 + ((i - 1) \div 2) * 2 * U, spec[4]>>,
                                 RoundStr("renotation"), {}).val,
                lab)]

\* The float distance_sq of each test spec: the distance d of its point and
\* the rounding error err of computing it, which is smaller than any
\* difference between the distances of two points and is not determined by
\* the point: the test specs in errs come out a little high.
computed_distance(cands, errs) ==
    [i \in 1..Len(cands) |->
        [d |-> cands[i].distance_sq, err |-> IF i \in errs THEN 1 ELSE 0]]

\* x > y on two float distances.
float_gt(x, y) == x.d > y.d \/ (x.d = y.d /\ x.err > y.err)

RECURSIVE closest_index_ge(_, _)
RECURSIVE closest_index(_, _)
\* The loop with `closest_dist >= distance_sq`.
closest_index_ge(dist, n) ==
    IF n = 1 THEN 1
    ELSE LET k == closest_index_ge(dist, n - 1)
         IN  IF ~float_gt(dist[n], dist[k]) THEN n ELSE k

\* The index of `closest` after the first n passes of the loop:
\* `if closest_dist is None or closest_dist > distance_sq`.
closest_index(dist, n) ==
    IF n = 1 THEN 1
    ELSE LET k == closest_index(dist, n - 1)
         IN  IF float_gt(dist[k], dist[n]) THEN n ELSE k

\* `closest` after the loop.
renotation_closest(cands, errs) ==
    cands[closest_index(computed_distance(cands, errs), Len(cands))].spec

\* What a call leaves: the argument array's content (spec), the returned
\* array's content (ret), and whether the returned array is the argument
\* array itself (alias).
Left(spec, ret, alias) == [spec |-> spec, ret |-> ret, alias |-> alias]

SetValue(spec, v) == [spec EXCEPT ![2] = v]

\* uplab_to_renotation_specification(spec, lab).  `spec` is an array the
\* caller holds.  Grays: `spec[1] = v_ren; return spec` writes into the
\* argument and returns it.  Colors: `closest` is an array normalized_color
\* made; `closest[1] = v_ren` writes into that.
uplab_to_renotation_specification(spec, lab, errs) ==
    IF IsNaN(spec[1])
    THEN Left(SetValue(spec, v_ren(spec[2])), SetValue(spec, v_ren(spec[2])), TRUE)
    ELSE Left(spec, SetValue(renotation_closest(renotation_candidates(spec, lab), errs),
                             v_ren(spec[2])), FALSE)

\* The rounding errors of the four distances of a call: none, or errors that
\* put a later test spec first among equally distant ones.
RenotationErrs(with_renotation) ==
    IF with_renotation THEN {{}, {1}, {1, 2}, {1, 3}, {1, 2, 3}} ELSE {{}}

\* _normalized_specification(hue_shade, value, chroma, hue_index) of the
\* earlier lindbloom.py: hue_shade 0 becomes 10 of the next hue_index.
_normalized_specification(hue_shade, value, chroma, hue_index) ==
    IF hue_shade = 0
    THEN <<10 * U, value, chroma, IF PyLt(9900000, hue_index) THEN U ELSE PyAdd(hue_index, U)>>
    ELSE <<hue_shade, value, chroma, hue_index>>

(***************************************************************************)
(* minterpol.py                                                            *)
(***************************************************************************)
MUNSELLINTERPOL_HUE_NAMES == <<"R", "YR", "Y", "GY", "G", "BG", "B", "PB", "P", "RP">>

\* _to_colorlab_hue without the step `if hue_shade == 0`.
_to_colorlab_hue_no_wrap(hue) ==
    LET dm == PyDivMod(hue, 10 * U)
    IN  <<dm[2], (((16 - dm[1]) % 10) + 1) * U>>

\* _to_colorlab_hue(hue) -> (hue_shade, hue_index)
_to_colorlab_hue(hue) ==
    LET hue1 == IF hue = 0 THEN 100 * U ELSE hue
        dm == PyDivMod(hue1, 10 * U)
        hue_shade == IF dm[2] = 0 THEN 10 * U ELSE dm[2]
        hue_index == IF dm[2] = 0 THEN dm[1] - 1 ELSE dm[1]
    IN  <<hue_shade, (((16 - hue_index) % 10) + 1) * U>>

\* _to_colorlab_specification with the gray test `value < 0 or chroma < 0`.
_to_colorlab_specification_lt(hvc) ==
    IF PyLt(hvc[2], 0) \/ PyLt(hvc[3], 0)
    THEN <<NaN, IF PyLt(hvc[2], 0) THEN 0 ELSE hvc[2], NaN, NaN>>
    ELSE LET h == _to_colorlab_hue(hvc[1]) IN <<h[1], hvc[2], hvc[3], h[2]>>

\* _to_colorlab_specification(hvc) -> spec
_to_colorlab_specification(hvc) ==
    IF PyLe(hvc[2], 0) \/ PyLe(hvc[3], 0)
    THEN <<NaN, IF PyLt(hvc[2], 0) THEN 0 ELSE hvc[2], NaN, NaN>>
    ELSE LET h == _to_colorlab_hue(hvc[1]) IN <<h[1], hvc[2], hvc[3], h[2]>>

\* The string 'NA' in a script's result.
NA == -999999997

\* An exception raised with arguments.
RaiseWith(e, args) == [exc |-> e, val |-> args]

\* What an Rscript process wrote to stdout, as json.loads sees it: text that
\* is not JSON (kind "text"), a JSON value that is not a list (kind "null",
\* "number" or "object"), or a JSON list of items (kind "list").
NotJson == [kind |-> "text", items |-> <<>>]

JsonValue(kind) == [kind |-> kind, items |-> <<>>]

JsonList(items) == [kind |-> "list", items |-> items]

\* try: res = json.loads(out) / except: res = None
json_loads_or_None(out) == IF out.kind = "text" THEN JsonValue("null") ELSE out

\* script_data taking the last item of the list, res[-1].
script_data_last(script, out, res) ==
    IF res.kind # "list" \/ Len(res.items) = 0
    THEN RaiseWith("Exception", <<script, out>>)
    ELSE Ok(res.items[Len(res.items)])

\* The lines every conversion shares, after res is set:
\*   if not isinstance(res, list) or len(res) == 0: raise Exception(...)
\*   data = res[0]
script_data(script, out, res) ==
    IF res.kind # "list" \/ Len(res.items) = 0
    THEN RaiseWith("Exception", <<script, out>>)
    ELSE Ok(res.items[1])

\* return _to_colorlab_specification(data): `hue, value, chroma = hvc` needs
\* three items.
to_colorlab_specification_of(d) ==
    IF d.exc # "" THEN d
    ELSE IF Len(d.val) # 3 THEN Raise("ValueError")
    ELSE Ok(_to_colorlab_specification(d.val))

\* minterpol.rgb_to_munsell_specification(r, g, b), given the script's output.
mint_rgb_to_munsell_specification(out) ==
    to_colorlab_specification_of(script_data("to_munsell.R", out, json_loads_or_None(out)))

\* minterpol.xyY_to_munsell_specification(xyY), given the script's output.
mint_xyY_to_munsell_specification(out) ==
    to_colorlab_specification_of(script_data("to_munsell.R", out, json_loads_or_None(out)))

\* minterpol.munsell_color_to_xyY(color, xyC), given the script's output.
mint_munsell_color_to_xyY(out) ==
    script_data("munsell_to_xyy.R", out, json_loads_or_None(out))

\* rgb_of_data returning np.array(data) as it is.
rgb_of_data_unscaled(d) ==
    IF d.exc # "" THEN d
    ELSE IF d.val[1] = NA THEN Ok(<<NaN, NaN, NaN>>)
    ELSE Ok(d.val)

\* if data[0] == 'NA': return nan, nan, nan / return np.array(data) / 255.
\* The script's components are whole numbers; the result is in millionths.
rgb_of_data(d) ==
    IF d.exc # "" THEN d
    ELSE IF d.val[1] = NA THEN Ok(<<NaN, NaN, NaN>>)
    ELSE Ok([i \in 1..Len(d.val) |-> (d.val[i] * U) \div 255])

\* minterpol.munsell_color_to_rgb(color), given the script's output.
mint_munsell_color_to_rgb(out) ==
    rgb_of_data(script_data("munsell_to_rgb.R", out, json_loads_or_None(out)))

(***************************************************************************)
(* The arguments the caller draws.                                         *)
(***************************************************************************)
MaxShadeStep == 9

MaxColorShadeStep == 3

MaxValueStep == 4

MaxChromaStep == 3

MaxDigits == 2

MaxRadiusStep == 5

MaxHueStep == 81

\* hue_index: neutral (NaN, 0), the ten families, and values that are out of
\* range or not integral.
HueIndexInputs == {NaN, 0, -U, 11 * U, 2500000} \cup {k * U : k \in 1..10}

\* hue_shade: steps of 1.25 from 0 past 10, and values a rounding takes to 0
\* or to a tie.
HueShadeInputs ==
    {NaN, -U, 4000, 50000, 9996000} \cup {k * 1250000 : k \in 0..MaxShadeStep}

\* hue_shade of a spec handed to normalized_color, whose hue is normalized_hue's.
ColorShadeInputs ==
    {NaN, 4000, 50000} \cup {k * 3750000 : k \in 0..MaxColorShadeStep}

\* value: steps of 2.5 from 0 to 10, negative, tiny and tie values.
ValueInputs ==
    {NaN, -U, 4000, 450000} \cup {k * 2500000 : k \in 0..MaxValueStep}

\* chroma: steps of 17 from 0 past 50, and the values around the renotation
\* minimum of 2.
ChromaInputs ==
    {NaN, 400000, U, 3 * U} \cup {k * 17 * U : k \in 0..MaxChromaStep}

RoundingInputs ==
    {RoundInt(n) : n \in -1..MaxDigits}
        \cup {RoundNone, RoundStr("renotation"), RoundStr("nearest")}

\* Tie directions matter only to round(x, ndigits) with ndigits >= 1.
TieInputs(rounding) ==
    IF rounding.kind = "int" /\ rounding.n >= 1 THEN SUBSET {"h", "v", "c"} ELSE {{}}

HueNameInputs ==
    {"N", "Z"} \cup {COLORLAB_HUE_NAMES[i] : i \in 1..Len(COLORLAB_HUE_NAMES)}

\* UP LAB points: l in [0, 1]; radii from 0 through the gray threshold
\* (chroma 0.01 is radius 20) to the corner of the (a_star, b_star) square;
\* every direction.  Only points with a_star, b_star in [-0.5, 0.5].  A point
\* is the exact one: at radius 20 the chroma is 0.01, not a float beside it.
LInputs == {0, 5, 50, 96, 100}

RadiusInputs ==
    {0, 1, 19, 20, 1000, 3000, 70710} \cup {k * 10000 : k \in 1..MaxRadiusStep}

InLabDomain(lab) ==
    LET ab == Cart(lab)
    IN  /\ lab[1] >= 0 /\ lab[1] <= 100
        /\ ab[1] >= -5000 /\ ab[1] <= 5000
        /\ ab[2] >= -5000 /\ ab[2] <= 5000

LabInputs ==
    {lab \in LInputs \X RadiusInputs \X (0..(AngleSteps - 1)) :
        InLabDomain(lab) /\ (lab[2] = 0 => lab[3] = 0)}

\* munsellinterpol hues: steps of 1.25 from 0 to just past 100.
InterpolHueInputs == {k * 1250000 : k \in 0..MaxHueStep} \cup {4000, 99996000}

InterpolValueInputs == {-U, 0, 4000, 5 * U, 10 * U}

InterpolChromaInputs == {-U, 0, 4000, 8 * U}

\* Specs whose colour string is asked for: numerals with and without a zero
\* after the point.
StringShadeInputs == {4000, 2500000, 5050000, 10 * U}

StringValueInputs == {0, 50000, 5 * U, 5050000, 10040000}

StringChromaInputs == {0, U, 4 * U, 4050000, 10500000}

StringHueIndexInputs == {NaN, U, 10 * U}

\* round(x, ndigits) with ndigits >= 1, and the two-decimal formatting of an
\* unrounded number, meet decimal ties.
StringTieInputs(rounding) ==
    IF rounding.kind = "none" \/ (rounding.kind = "int" /\ rounding.n >= 1)
    THEN SUBSET {"h", "v", "c"} ELSE {{}}

\* Script outputs: not JSON, JSON that is no list, and lists of up to
\* MaxScriptItems items drawn from data.
MaxScriptItems == 2

ScriptOutputs(data) ==
    {NotJson, JsonValue("null"), JsonValue("number"), JsonValue("object")}
        \cup {JsonList(items) : items \in UNION {[1..n -> data] : n \in 0..MaxScriptItems}}

\* Items of to_munsell.R: hue, value, chroma; one item is short.
MunsellData == {<<25 * U, 5 * U, 8 * U>>, <<0, 5 * U, 8 * U>>, <<70 * U, -U, 0>>, <<25 * U, 5 * U>>}

\* Items of munsell_to_xyy.R: x, y, Y.
XyYData == {<<310060, 316160, 500000>>, <<406070, 376510, 179110>>, <<0, 0, 0>>}

\* Items of munsell_to_rgb.R: r, g, b, or 'NA'.
RgbData == {<<NA, NA, NA>>, <<0, 128, 255>>, <<255, 255, 255>>, <<256, -1, 0>>}

\* lindbloom.py, _clamp_uint8: min(255, max(0, int(v))).
_clamp_uint8(v) == PyMin(255, PyMax(0, PyInt(v)))

\* lindbloom.py, _clamp_int8: min(-128, max(127, int(v))).
_clamp_int8(v) == PyMin(-128, PyMax(127, PyInt(v)))

\* CIELab colours that colorspacious.cspace_convert hands back: L, a, b.
CielabInputs ==
    {<<L, a, b>> : L \in {-500000, 50700000, 260 * U},
                   a \in {-200500000, -128 * U, -5500000, 0, 127 * U, 300 * U},
                   b \in {-129 * U, -900000, 5900000, 128 * U}}

\* UP LAB points that the ICC transform of _to_uplab hands back.
JchUplabInputs == {<<50, 0, 0>>, <<50, 3000, 40>>, <<96, 1000, 85>>}

(***************************************************************************)
(* deprecated.py: nudging the luminosity Y of an xyY colour until the      *)
(* colour package's conversion accepts it.  Arrays live in the heap: the   *)
(* caller's xyY is heap[1] and np.array(xyY) allocates a copy.  The two    *)
(* loops run one probe per step; frame holds the locals of the running     *)
(* call.                                                                   *)
(***************************************************************************)
\* `while i <= 100` and the divisor of step.
ProbeCount == 100

\* The Y that _adjust_value_up steps towards.
Y_UP_TARGET == 200000

\* The Y that _adjust_value_down steps towards, and below which it refuses.
Y_DOWN_TARGET == 800000

\* new_Y_to_munsell_value is called by deprecated.py and defined nowhere in
\* the sources: the Munsell value of a luminosity, a nondecreasing curve
\* that reaches 1 at Y = curve.one and 10 at Y = curve.ten.
new_Y_to_munsell_value(curve, Y) ==
    IF IsNaN(Y) THEN NaN
    ELSE IF Y < curve.one THEN ((Y * 1000) \div curve.one) * 1000
    ELSE IF Y <= curve.ten
    THEN U + (((Y - curve.one) * 9) \div ((curve.ten - curve.one) \div 1000)) * 1000
    ELSE 10 * U + (Y - curve.ten)

\* step = (target - Y) / 100.
probe_step(target, Y) == IF IsNaN(Y) THEN NaN ELSE (target - Y) \div ProbeCount

\* Y_temp = Y + i * step.
probe_Y(Y, i, step) == IF IsNaN(Y) THEN NaN ELSE Y + i * step

\* np.array(xyY) by reference instead of by copy.
np_array_alias(h, ref) == [heap |-> h, ref |-> ref]

\* np.array(xyY): a new array with the elements of heap[ref].
np_array(h, ref) == [heap |-> Append(h, h[ref]), ref |-> Len(h) + 1]

\* xyY_temp[2] = Y_temp.
set_Y(h, ref, Y_temp) == [h EXCEPT ![ref] = [@ EXCEPT ![3] = Y_temp]]

\* _adjust_value_up up to the loop: raise, return the argument, or loop.
adjust_value_up_enter(curve, xyY) ==
    LET Y == xyY[3]
        value == new_Y_to_munsell_value(curve, Y)
    IN  IF PyLt(10 * U, value) THEN [at |-> "raise", value |-> value]
        ELSE IF Y = 0 \/ PyLe(U, value) THEN [at |-> "return", value |-> value]
        ELSE [at |-> "loop", value |-> value]

\* One iteration of the loop of _adjust_value_up, and the raise after it.
adjust_value_up_probe(curve, Y, step, i) ==
    LET Y_temp == probe_Y(Y, i, step)
        new_value == new_Y_to_munsell_value(curve, Y_temp)
    IN  IF PyLt(10 * U, new_value) THEN [at |-> "raise", Y_temp |-> Y_temp, value |-> new_value]
        ELSE IF PyLe(U, new_value)
        THEN [at |-> "return", Y_temp |-> Y_temp, value |-> new_value]
        ELSE IF i + 1 <= ProbeCount
        THEN [at |-> "loop", Y_temp |-> Y_temp, value |-> new_value]
        ELSE [at |-> "raise", Y_temp |-> Y_temp, value |-> new_value]

\* _adjust_value_down without `if Y < 0.8: raise`.
adjust_value_down_enter_no_floor(Y, value) ==
    IF PyLt(10 * U, value) THEN "raise" ELSE "loop"

\* _adjust_value_down up to the loop.
adjust_value_down_enter(Y, value) ==
    IF PyLt(Y, Y_DOWN_TARGET) THEN "raise"
    ELSE IF PyLt(10 * U, value) THEN "raise"
    ELSE "loop"

\* The colour package's conversion raised and the handler lets it through.
conversion_failed_reraise(out) == out.exc

\* `except Exception`: whatever the colour package raised is swallowed.
conversion_failed(out) == ""

\* The luminosity _adjust_to_macadam_limits steps towards.
Y_MACADAM_TARGET == 500000

\* volume.is_within_macadam_limits(xyY, illuminant) on the colours of one
\* chromaticity: the colour package's answer is a function of the colour,
\* here the luminosities from limits.lo to limits.hi.
is_within_macadam_limits(limits, Y) ==
    IF IsNaN(Y) THEN FALSE ELSE limits.lo <= Y /\ Y <= limits.hi

\* One pass of the loop of _adjust_to_macadam_limits, i in range(0, 100):
\* the probed Y and where the call goes next.
adjust_to_macadam_limits_probe(limits, Y, step, i) ==
    LET Y_temp == probe_Y(Y, i, step)
    IN  [Y_temp |-> Y_temp,
         at |-> IF is_within_macadam_limits(limits, Y_temp) THEN "return"
                ELSE IF i + 1 < ProbeCount THEN "loop"
                ELSE "raise"]

\* Luminosities passed to _adjust_to_macadam_limits, and the limits the
\* colour package finds at their chromaticity.
MacAdamYInputs == {NaN, 0, 100000, 300000, 500000, 700000, 1000000}

MacAdamLimits ==
    {[lo |-> 0, hi |-> 1000000], [lo |-> 200000, hi |-> 400000],
     [lo |-> 450000, hi |-> 600000], [lo |-> 496500, hi |-> 499900],
     [lo |-> 500000, hi |-> 500000], [lo |-> 2000000, hi |-> 3000000]}

\* Luminosities, chromaticities and value curves of the calls.
YInputs ==
    {NaN, 0, 400, 5000, 11900, 12000, 200000, 500000, 800000, 900000, 1000000, 1100000}

xyInputs == {<<310060, 316160>>, <<406070, 376510>>}

ValueCurves ==
    {[one |-> 12000, ten |-> 1012000], [one |-> 300000, ten |-> 1300000],
     [one |-> 1000, ten |-> 2000]}

\* What notation.munsell.xyY_to_munsell_specification does with a colour:
\* a specification, or an error of the colour package.
ConversionOutcomes ==
    {Ok(<<2500000, 5 * U, 4 * U, 3 * U>>), Ok(<<NaN, 9 * U, NaN, NaN>>),
     Raise("AssertionError"), Raise("ConvergenceError")}

\* No conversion has been attempted yet.
NoConversion == [xyY |-> <<>>, out |-> Raise("none")]

\* The locals of a call that has not entered a loop.  converted, first and
\* last record the calls of the colour package's conversion: how many, the
\* first and the latest, each with the colour passed and the outcome.
Locals(curve, Y, value) ==
    [curve |-> curve, Y |-> Y, value |-> value, step |-> 0, i |-> 0,
     xyY_adjusted |-> 1, xyY_temp |-> 1, probes |-> 0, Y_temp |-> Y,
     converted |-> 0, first |-> NoConversion, last |-> NoConversion]

\* No call of deprecated.py is running.
NoFrame == Locals([one |-> 0, ten |-> 0], 0, 0)

(***************************************************************************)
(* The caller.                                                             *)
(***************************************************************************)
VARIABLES pc, fn, arg, ret, exc, heap, frame

vars == <<pc, fn, arg, ret, exc, heap, frame>>

Init ==
    /\ pc = "idle"
    /\ fn = ""
    /\ arg = <<>>
    /\ ret = <<>>
    /\ exc = ""
    /\ heap = <<>>
    /\ frame = NoFrame

\* One call, made from idle, of a function that returns a value or raises.
Called(name, args, res) ==
    /\ pc' = "done"
    /\ fn' = name
    /\ arg' = args
    /\ ret' = res.val
    /\ exc' = res.exc
    /\ heap' = <<>>
    /\ frame' = NoFrame

Call_normalized_hue ==
    /\ pc = "idle"
    /\ \E hue_index \in HueIndexInputs, hue_shade \in HueShadeInputs \cup {None},
       rounding \in RoundingInputs :
        \E ups \in TieInputs(rounding) :
            Called("normalized_hue", <<hue_index, hue_shade, rounding>>,
                   normalized_hue(hue_index, hue_shade, rounding, "h" \in ups))

Call_normalized_color ==
    /\ pc = "idle"
    /\ \E spec \in ColorShadeInputs \X ValueInputs \X ChromaInputs \X HueIndexInputs,
       rounding \in RoundingInputs :
        \E ups \in TieInputs(rounding) :
            Called("normalized_color", <<spec, rounding>>,
                   normalized_color(spec, rounding, ups))

Call_hue_name_from_hue_index ==
    /\ pc = "idle"
    /\ \E hue_index \in HueIndexInputs :
        Called("hue_name_from_hue_index", <<hue_index>>,
               hue_name_from_hue_index(hue_index))

Call_astm_hue ==
    /\ pc = "idle"
    /\ \E hue_index \in HueIndexInputs, hue_shade \in HueShadeInputs \cup {None} :
        Called("astm_hue", <<hue_index, hue_shade>>, astm_hue(hue_index, hue_shade))

Call_hue_index_from_hue_name ==
    /\ pc = "idle"
    /\ \E hue_name \in HueNameInputs :
        Called("hue_index_from_hue_name", <<hue_name>>,
               hue_index_from_hue_name(hue_name))

Call_uplab_to_munsell_specification ==
    /\ pc = "idle"
    /\ \E lab \in LabInputs :
        Called("uplab_to_munsell_specification", <<lab>>,
               Ok(uplab_to_munsell_specification(lab)))

\* tests/test_lindbloom.py, test_inverse: spec from lab1, lab2 from spec.
\* ret = <<spec, lab2>>.
test_inverse ==
    /\ pc = "idle"
    /\ \E lab1 \in LabInputs :
        LET spec == uplab_to_munsell_specification(lab1)
            lab2 == munsell_specification_to_uplab(spec)
        IN  Called("test_inverse", <<lab1>>, Ok(<<spec, lab2>>))

\* What _to_munsell_specification returns once raw_spec is computed: the
\* heap of arrays and the returned references.
Renotated(r) ==
    IF r.alias THEN [heap |-> <<r.spec>>, ret |-> <<1, 1>>]
    ELSE [heap |-> <<r.spec, r.ret>>, ret |-> <<1, 2>>]

to_munsell_specification_result(raw_spec, uplab, with_renotation, errs) ==
    IF with_renotation
    THEN Renotated(uplab_to_renotation_specification(raw_spec, uplab, errs))
    ELSE [heap |-> <<raw_spec>>, ret |-> <<1>>]

HeapCalled(name, args, res) ==
    /\ pc' = "done"
    /\ fn' = name
    /\ arg' = args
    /\ ret' = res.ret
    /\ exc' = ""
    /\ heap' = res.heap
    /\ frame' = NoFrame

\* _to_munsell_specification(mode, color, with_renotation).  The ICC
\* transform of _to_uplab is external: uplab is whatever point it returns.
\* raw_spec is a new array (heap[1]); the array the renotation call returns
\* is heap[1] again or a new array (heap[2]).  ret holds the returned
\* references.
_to_munsell_specification ==
    /\ pc = "idle"
    /\ \E uplab \in LabInputs, with_renotation \in BOOLEAN :
        \E errs \in RenotationErrs(with_renotation) :
            HeapCalled("_to_munsell_specification", <<uplab, with_renotation, errs>>,
                       to_munsell_specification_result(
                           uplab_to_munsell_specification(uplab), uplab,
                           with_renotation, errs))

Call__normalized_specification ==
    /\ pc = "idle"
    /\ \E hue_shade \in HueShadeInputs, hue_index \in {k * U : k \in 1..10} :
        Called("_normalized_specification", <<hue_shade, 5 * U, 4 * U, hue_index>>,
               Ok(_normalized_specification(hue_shade, 5 * U, 4 * U, hue_index)))

Call__to_colorlab_hue ==
    /\ pc = "idle"
    /\ \E hue \in InterpolHueInputs :
        Called("_to_colorlab_hue", <<hue>>, Ok(_to_colorlab_hue(hue)))

Call__to_colorlab_specification ==
    /\ pc = "idle"
    /\ \E hvc \in InterpolHueInputs \X InterpolValueInputs \X InterpolChromaInputs :
        Called("_to_colorlab_specification", <<hvc>>, Ok(_to_colorlab_specification(hvc)))

Call_normalized_color_all ==
    /\ pc = "idle"
    /\ \E spec \in StringShadeInputs \X StringValueInputs \X StringChromaInputs
                    \X StringHueIndexInputs,
          rounding \in RoundingInputs, truncate \in BOOLEAN :
        \E ups \in StringTieInputs(rounding) :
            Called("normalized_color_all", <<spec, rounding, truncate, ups>>,
                   normalized_color_all(spec, rounding, truncate, ups))

Call_normalized_color_out ==
    /\ pc = "idle"
    /\ \E spec \in StringShadeInputs \X StringValueInputs \X StringChromaInputs
                    \X StringHueIndexInputs,
          rounding \in RoundingInputs, truncate \in BOOLEAN, out \in {"spec", "color"} :
        \E ups \in StringTieInputs(rounding) :
            Called("normalized_color_out", <<spec, rounding, truncate, ups, out>>,
                   normalized_color_out(spec, rounding, truncate, out, ups))

Call_mint_rgb_to_munsell_specification ==
    /\ pc = "idle"
    /\ \E out \in ScriptOutputs(MunsellData) :
        Called("mint.rgb_to_munsell_specification", <<out>>,
               mint_rgb_to_munsell_specification(out))

Call_mint_xyY_to_munsell_specification ==
    /\ pc = "idle"
    /\ \E out \in ScriptOutputs(MunsellData) :
        Called("mint.xyY_to_munsell_specification", <<out>>,
               mint_xyY_to_munsell_specification(out))

Call_mint_munsell_color_to_xyY ==
    /\ pc = "idle"
    /\ \E out \in ScriptOutputs(XyYData) :
        Called("mint.munsell_color_to_xyY", <<out>>, mint_munsell_color_to_xyY(out))

Call_mint_munsell_color_to_rgb ==
    /\ pc = "idle"
    /\ \E out \in ScriptOutputs(RgbData) :
        Called("mint.munsell_color_to_rgb", <<out>>, mint_munsell_color_to_rgb(out))

\* The conversion was called on the array at ref and came out as out.
Converted(f, h, ref, out) ==
    LET c == [xyY |-> h[ref], out |-> out]
    IN  [f EXCEPT !.converted = @ + 1, !.last = c,
                  !.first = IF f.converted = 0 THEN c ELSE @]

\* The running call ends: it returns res or raises e.
Finished(res, e, h, f) ==
    /\ pc' = "done"
    /\ ret' = res
    /\ exc' = e
    /\ heap' = h
    /\ frame' = f

\* The running call goes on at position at.
Continued(at, h, f) ==
    /\ pc' = at
    /\ ret' = <<>>
    /\ exc' = ""
    /\ heap' = h
    /\ frame' = f

\* _adjust_value_up returns (xyY_adjusted, value): to the caller, or to
\* safe_xyY_to_munsell_specification, which returns a neutral below value 1
\* and goes on to the conversion otherwise.
adjust_value_up_returned(name, ref, value, h, f) ==
    LET g == [f EXCEPT !.xyY_adjusted = ref, !.value = value]
    IN  IF name = "_adjust_value_up" THEN Finished(<<ref, value>>, "", h, g)
        ELSE IF PyLt(value, U) THEN Finished(<<NaN, value, NaN, NaN>>, "", h, g)
        ELSE Continued("convert", h, g)

\* _adjust_value_up(xyY), called directly or first thing by
\* safe_xyY_to_munsell_specification.
adjust_value_up_called(name, curve, xyY) ==
    LET e == adjust_value_up_enter(curve, xyY)
        f == Locals(curve, xyY[3], e.value)
        copy == np_array(<<xyY>>, 1)
    IN  /\ fn' = name
        /\ arg' = <<xyY, curve>>
        /\ CASE e.at = "raise" -> Finished(<<>>, "RuntimeError", <<xyY>>, f)
             [] e.at = "return" -> adjust_value_up_returned(name, 1, e.value, <<xyY>>, f)
             [] e.at = "loop" ->
                    Continued("up_probe", copy.heap,
                              [f EXCEPT !.xyY_temp = copy.ref, !.i = 1,
                                        !.step = probe_step(Y_UP_TARGET, xyY[3])])

Call__adjust_value_up ==
    /\ pc = "idle"
    /\ \E xy \in xyInputs, Y \in YInputs, curve \in ValueCurves :
        adjust_value_up_called("_adjust_value_up", curve, <<xy[1], xy[2], Y>>)

Call_safe_xyY_to_munsell_specification ==
    /\ pc = "idle"
    /\ \E xy \in xyInputs, Y \in YInputs, curve \in ValueCurves :
        adjust_value_up_called("safe_xyY_to_munsell_specification", curve,
                               <<xy[1], xy[2], Y>>)

\* One probe of the loop of _adjust_value_up.
Probe_up ==
    /\ pc = "up_probe"
    /\ UNCHANGED <<fn, arg>>
    /\ LET p == adjust_value_up_probe(frame.curve, frame.Y, frame.step, frame.i)
           f == [frame EXCEPT !.probes = @ + 1, !.Y_temp = p.Y_temp]
       IN  CASE p.at = "raise" -> Finished(<<>>, "RuntimeError", heap, f)
             [] p.at = "return" ->
                    adjust_value_up_returned(fn, frame.xyY_temp, p.value,
                                             set_Y(heap, frame.xyY_temp, p.Y_temp), f)
             [] p.at = "loop" -> Continued("up_probe", heap, [f EXCEPT !.i = @ + 1])

\* _adjust_value_down(xyY_adjusted, value) up to its loop.
adjust_value_down_called(h, f) ==
    LET Y == h[f.xyY_adjusted][3]
        copy == np_array(h, f.xyY_adjusted)
    IN  IF adjust_value_down_enter(Y, f.value) = "raise"
        THEN Finished(<<>>, "RuntimeError", h, f)
        ELSE Continued("down_probe", copy.heap,
                       [f EXCEPT !.Y = Y, !.xyY_temp = copy.ref, !.i = 1,
                                 !.step = probe_step(Y_DOWN_TARGET, Y)])

\* The value argument of _adjust_value_down: None, or what the caller has.
DownValueInputs == {None, 5 * U, 9 * U, 10500000}

\* _adjust_value_down(xyY, value), called directly: `if value is None` reads
\* the value of Y.
Call__adjust_value_down ==
    /\ pc = "idle"
    /\ \E xy \in xyInputs, Y \in YInputs, curve \in ValueCurves, value \in DownValueInputs :
        LET xyY == <<xy[1], xy[2], Y>>
            v == IF value = None THEN new_Y_to_munsell_value(curve, Y) ELSE value
        IN  /\ fn' = "_adjust_value_down"
            /\ arg' = <<xyY, curve, value>>
            /\ adjust_value_down_called(<<xyY>>, Locals(curve, Y, v))

\* safe_xyY_to_munsell_specification: the conversion of the adjusted colour,
\* and the call of _adjust_value_down when it raises.
Convert ==
    /\ pc = "convert"
    /\ UNCHANGED <<fn, arg>>
    /\ \E out \in ConversionOutcomes :
        LET f == Converted(frame, heap, frame.xyY_adjusted, out)
        IN  IF out.exc = "" THEN Finished(out.val, "", heap, f)
            ELSE IF conversion_failed(out) # ""
            THEN Finished(<<>>, conversion_failed(out), heap, f)
            ELSE adjust_value_down_called(heap, f)

\* One probe of the loop of _adjust_value_down: the value of the next Y
\* and, unless it exceeds 10, a conversion of the colour at that Y.
Probe_down ==
    /\ pc = "down_probe"
    /\ UNCHANGED <<fn, arg>>
    /\ LET Y_temp == probe_Y(frame.Y, frame.i, frame.step)
           new_value == new_Y_to_munsell_value(frame.curve, Y_temp)
           h == set_Y(heap, frame.xyY_temp, Y_temp)
       IN  IF PyLt(10 * U, new_value)
           THEN Finished(<<>>, "RuntimeError", heap,
                         [frame EXCEPT !.Y_temp = Y_temp, !.probes = @ + 1])
           ELSE \E out \in ConversionOutcomes :
                LET f == Converted([frame EXCEPT !.Y_temp = Y_temp, !.probes = @ + 1],
                                   h, frame.xyY_temp, out)
                IN  IF out.exc = ""
                    THEN Finished(IF fn = "_adjust_value_down"
                                  THEN <<frame.xyY_temp, new_value, out.val>>
                                  ELSE out.val,
                                  "", h,
                                  [f EXCEPT !.xyY_adjusted = frame.xyY_temp,
                                            !.value = new_value])
                    ELSE IF conversion_failed(out) # ""
                    THEN Finished(<<>>, conversion_failed(out), h, f)
                    ELSE IF frame.i + 1 <= ProbeCount
                    THEN Continued("down_probe", h, [f EXCEPT !.i = @ + 1])
                    ELSE Finished(<<>>, "RuntimeError", h, f)

\* jch_to_munsell_specification(jch, with_renotation).  The conversion of
\* jch to lab and the ICC transform are external: lab and uplab are whatever
\* they return.  frame holds the locals L, a, b, the colour handed to the
\* transform.
Call_jch_to_munsell_specification ==
    /\ pc = "idle"
    /\ \E lab \in CielabInputs, uplab \in JchUplabInputs, with_renotation \in BOOLEAN :
        \E errs \in RenotationErrs(with_renotation) :
          LET res == to_munsell_specification_result(
                        uplab_to_munsell_specification(uplab), uplab, with_renotation, errs)
          IN
            /\ pc' = "done"
            /\ fn' = "jch_to_munsell_specification"
            /\ arg' = <<lab, with_renotation>>
            /\ ret' = res.ret
            /\ exc' = ""
            /\ heap' = res.heap
            /\ frame' = [L |-> _clamp_uint8(lab[1]), a |-> _clamp_int8(lab[2]),
                         b |-> _clamp_int8(lab[3]), uplab |-> uplab, errs |-> errs]

\* _adjust_to_macadam_limits(xyY) up to its loop: the argument itself when
\* it is within the limits, a copy to probe with otherwise.
Call__adjust_to_macadam_limits ==
    /\ pc = "idle"
    /\ \E xy \in xyInputs, Y \in MacAdamYInputs, limits \in MacAdamLimits :
        LET xyY == <<xy[1], xy[2], Y>>
            f == Locals(NoFrame.curve, Y, 0)
            c == np_array(<<xyY>>, 1)
        IN  /\ fn' = "_adjust_to_macadam_limits"
            /\ arg' = <<xyY, limits>>
            /\ IF is_within_macadam_limits(limits, Y)
               THEN Finished(<<1>>, "", <<xyY>>, f)
               ELSE Continued("macadam_probe", c.heap,
                              [f EXCEPT !.xyY_temp = c.ref,
                                        !.step = probe_step(Y_MACADAM_TARGET, Y)])

\* One pass of the loop of _adjust_to_macadam_limits.
Probe_macadam ==
    /\ pc = "macadam_probe"
    /\ UNCHANGED <<fn, arg>>
    /\ LET p == adjust_to_macadam_limits_probe(arg[2], frame.Y, frame.step, frame.i)
           h == set_Y(heap, frame.xyY_temp, p.Y_temp)
           f == [frame EXCEPT !.probes = @ + 1, !.Y_temp = p.Y_temp]
       IN  CASE p.at = "raise" -> Finished(<<>>, "RuntimeError", h, f)
             [] p.at = "return" -> Finished(<<frame.xyY_temp>>, "", h, f)
             [] p.at = "loop" -> Continued("macadam_probe", h, [f EXCEPT !.i = @ + 1])

\* The call has returned and its result is dropped: nothing persists.
Return ==
    /\ pc = "done"
    /\ pc' = "idle"
    /\ fn' = ""
    /\ arg' = <<>>
    /\ ret' = <<>>
    /\ exc' = ""
    /\ heap' = <<>>
    /\ frame' = NoFrame

Next ==
    \/ Call_normalized_hue
    \/ Call_normalized_color
    \/ Call_hue_name_from_hue_index
    \/ Call_astm_hue
    \/ Call_hue_index_from_hue_name
    \/ Call_uplab_to_munsell_specification
    \/ test_inverse
    \/ _to_munsell_specification
    \/ Call__normalized_specification
    \/ Call__to_colorlab_hue
    \/ Call__to_colorlab_specification
    \/ Call_normalized_color_all
    \/ Call_normalized_color_out
    \/ Call_mint_rgb_to_munsell_specification
    \/ Call_mint_xyY_to_munsell_specification
    \/ Call_mint_munsell_color_to_xyY
    \/ Call_mint_munsell_color_to_rgb
    \/ Call__adjust_value_up
    \/ Call_safe_xyY_to_munsell_specification
    \/ Call__adjust_value_down
    \/ Probe_up
    \/ Convert
    \/ Probe_down
    \/ Call_jch_to_munsell_specification
    \/ Call__adjust_to_macadam_limits
    \/ Probe_macadam
    \/ Return

Spec == Init /\ [][Next]_vars

(***************************************************************************)
(* Properties.                                                             *)
(***************************************************************************)
HueIndexes == {k * U : k \in 1..10}

Abs(x) == IF x < 0 THEN -x ELSE x

\* The multiples of step nearest to x (two of them at a tie).
NearestMultiples(x, step) ==
    {m \in {(x \div step) * step, ((x \div step) + 1) * step} : 2 * Abs(m - x) <= step}

\* What a rounding may make of the number x.
RoundedValues(x, rounding) ==
    IF rounding.kind = "none" THEN {x}
    ELSE IF rounding.kind = "str" THEN NearestMultiples(x, 2500000)
    ELSE NearestMultiples(x, 10^(6 - rounding.n))

Chromatic(spec) ==
    /\ spec[1] > 0 /\ spec[1] <= 10 * U
    /\ spec[2] > 0 /\ spec[2] <= 10 * U
    /\ spec[3] >= 0 /\ spec[3] <= 50 * U
    /\ spec[4] \in HueIndexes

Neutral(spec) ==
    /\ IsNaN(spec[1]) /\ IsNaN(spec[4])
    /\ spec[2] >= 0 /\ spec[2] <= 10 * U

\* C1: normalized_color(spec, rounding, out='spec'), for a hue_index that is
\* NaN, 0 or an integer in 1..10 and rounding an integer or None, returns a
\* chromatic spec (hue_shade in (0,10], value in (0,10], chroma in [0,50],
\* hue_index in 1..10) or a neutral one (hue_shade and hue_index NaN, value in
\* [0,10]); a result of value 0 is neutral with chroma NaN as well.
C1_NormalizedColorDomain ==
    (/\ fn = "normalized_color"
     /\ arg[1][4] \in {NaN, 0} \cup HueIndexes
     /\ arg[2].kind \in {"int", "none"})
    => /\ exc = ""
       /\ Chromatic(ret) \/ Neutral(ret)
       /\ ret[2] = 0 => (IsNaN(ret[1]) /\ IsNaN(ret[3]) /\ IsNaN(ret[4]))

\* A chromatic spec of positive value whose value rounds to 0 came back neutral.
C1_Witness ==
    /\ fn = "normalized_color"
    /\ arg[1][4] \in HueIndexes
    /\ arg[2].kind = "int"
    /\ arg[1][2] > 0
    /\ exc = ""
    /\ ret = <<NaN, 0, NaN, NaN>>

C3_HueTableBijection ==
    /\ (fn = "hue_name_from_hue_index" /\ arg[1] \in {0} \cup HueIndexes)
       => /\ exc = ""
          /\ hue_index_from_hue_name(ret) = Ok(arg[1])
    /\ (fn = "hue_index_from_hue_name" /\ arg[1] \in HueNameInputs \ {"Z"})
       => /\ exc = ""
          /\ ret \in {0} \cup HueIndexes
          /\ hue_name_from_hue_index(ret) = Ok(arg[1])
          /\ arg[1] = "N" <=> ret = 0

ASTM_ORDER == <<"R", "YR", "Y", "GY", "G", "BG", "B", "PB", "P", "RP">>

\* C4: for hue_index h in 1..10, astm_hue(h, s) = 10 * k + s with k the
\* 0-based position of the hue's letter code in R, YR, Y, GY, G, BG, B, PB, P,
\* RP; with hue_shade omitted the result is 10 * k, in [0, 90]; for neutral
\* (hue_index 0 or NaN) the result is 0.
C4_AstmHue ==
    (fn = "astm_hue" /\ ~IsNaN(arg[2]))
    => /\ arg[1] \in HueIndexes
          => /\ exc = ""
             /\ \E k \in 0..9 :
                  /\ ASTM_ORDER[k + 1] = COLORLAB_HUE_NAMES[PyInt(arg[1])]
                  /\ ret = 10 * k * U + (IF arg[2] = None THEN 0 ELSE arg[2])
             /\ arg[2] = None => (ret >= 0 /\ ret <= 90 * U)
       /\ arg[1] \in {0, NaN} => (exc = "" /\ ret = 0)

\* 2.5RP (hue_index 8) is ASTM hue 92.5.
C4_Witness ==
    /\ fn = "astm_hue"
    /\ arg = <<8 * U, 2500000>>
    /\ ret = 92500000

\* Two UP LAB points are the same point: the same l and the same
\* (a_star, b_star).  Points of the grid that differ in radius differ by at
\* least 10^-5 in a_star or b_star's length, more than the 6 decimals of
\* assert_array_almost_equal.
SameLab(p, q) ==
    /\ p[1] = q[1]
    /\ p[2] = q[2]
    /\ p[2] # 0 => p[3] = q[3]

C6_RawSpecUnchanged ==
    (fn = "_to_munsell_specification" /\ arg[2])
    => heap[ret[1]] = uplab_to_munsell_specification(arg[1])

\* C7: the renotation spec is on the renotation grid: value an integer in
\* 0..10; for chromatic colors hue_shade a multiple of 2.5 in [0,10], chroma
\* an even integer in [0,50], hue_index in 1..10; for neutral colors
\* hue_shade, chroma and hue_index NaN.
C7_RenotationGrid ==
    (fn = "_to_munsell_specification" /\ arg[2])
    => LET ren == heap[ret[2]]
           gray == CHROMA_FACTOR * arg[1][2] * 10 < 10000
       IN  /\ ren[2] % U = 0 /\ ren[2] >= 0 /\ ren[2] <= 10 * U
           /\ gray => (IsNaN(ren[1]) /\ IsNaN(ren[3]) /\ IsNaN(ren[4]))
           /\ ~gray => /\ ren[1] % 2500000 = 0 /\ ren[1] >= 0 /\ ren[1] <= 10 * U
                       /\ ren[3] % (2 * U) = 0 /\ ren[3] >= 0 /\ ren[3] <= 50 * U
                       /\ ren[4] \in HueIndexes

\* A chromatic color of raw value 9.52 (between 9 and 9.9) and raw hue_shade
\* below 2.5 was renotated to value 9 in a new array.
C7_Witness ==
    /\ fn = "_to_munsell_specification"
    /\ arg[2]
    /\ arg[1][1] = 96
    /\ ret = <<1, 2>>
    /\ heap[1][1] < 2500000
    /\ heap[2][2] = 9 * U
    /\ heap[2][3] >= 2 * U

\* C8: uplab_to_munsell_specification returns a neutral spec (hue_shade,
\* chroma, hue_index NaN, value 9.9167 * l) exactly when
\* 50 * sqrt(a_star^2 + b_star^2) < 0.01, and otherwise value 9.9167 * l in
\* [0,10], chroma 50 * sqrt(a_star^2 + b_star^2) in [0,50], hue_shade in
\* [0,10] and hue_index an integer in 1..10.
C8_UplabToMunsell ==
    fn = "uplab_to_munsell_specification"
    => LET l == arg[1][1]
           rad == arg[1][2]
       IN  /\ ret[2] * 100 = 9916700 * l
           /\ ret[2] >= 0 /\ ret[2] <= 10 * U
           /\ (50 * rad < 1000) <=> IsNaN(ret[1])
           /\ IsNaN(ret[1]) => (IsNaN(ret[3]) /\ IsNaN(ret[4]))
           /\ ~IsNaN(ret[1]) =>
                /\ ret[3] = 50 * rad * 10
                /\ ret[3] >= 0 /\ ret[3] <= 50 * U
                /\ ret[1] >= 0 /\ ret[1] <= 10 * U
                /\ ret[4] \in HueIndexes

\* The point of chroma exactly 0.01 is chromatic.
C8_Witness ==
    /\ fn = "uplab_to_munsell_specification"
    /\ arg[1][2] = 20
    /\ ~IsNaN(ret[1])
    /\ ret[3] = 10000

\* C9: for a munsellinterpol hue H in [0,100], _to_colorlab_hue returns
\* hue_index in 1..10 and hue_shade in [0,10] naming the same hue: for H in
\* (10k, 10k + 10] hue_shade = H - 10k and COLORLAB_HUE_NAMES[hue_index - 1]
\* = MUNSELLINTERPOL_HUE_NAMES[k] (R->7, YR->6, Y->5, GY->4, G->3, BG->2,
\* B->1, PB->10, P->9, RP->8); H = 0 is treated as H = 100.
C9_ColorlabHue ==
    (fn = "_to_colorlab_hue" /\ arg[1] >= 0 /\ arg[1] <= 100 * U)
    => LET H == IF arg[1] = 0 THEN 100 * U ELSE arg[1]
       IN  /\ ret[2] \in HueIndexes
           /\ ret[1] >= 0 /\ ret[1] <= 10 * U
           /\ \E k \in 0..9 :
                /\ 10 * k * U < H /\ H <= 10 * k * U + 10 * U
                /\ ret[1] = H - 10 * k * U
                /\ COLORLAB_HUE_NAMES[PyInt(ret[2])] = MUNSELLINTERPOL_HUE_NAMES[k + 1]
                /\ PyInt(ret[2]) = <<7, 6, 5, 4, 3, 2, 1, 10, 9, 8>>[k + 1]

\* H = 70, the upper end of family B (60, 70], is 10B: hue_index 1.
C9_Witness ==
    /\ fn = "_to_colorlab_hue"
    /\ arg[1] = 70 * U
    /\ ret = <<10 * U, U>>

MintFunctions ==
    {"mint.rgb_to_munsell_specification", "mint.xyY_to_munsell_specification",
     "mint.munsell_color_to_xyY", "mint.munsell_color_to_rgb"}

ScriptOf(f) ==
    IF f = "mint.munsell_color_to_xyY" THEN "munsell_to_xyy.R"
    ELSE IF f = "mint.munsell_color_to_rgb" THEN "munsell_to_rgb.R"
    ELSE "to_munsell.R"

\* C11: each minterpol conversion returns a value derived only from the
\* first element of the script's JSON list; when the output is not JSON, not
\* a list or an empty list, it raises an exception naming the script and its
\* output and returns no value.
C11_ScriptOutput ==
    fn \in MintFunctions
    => LET out == arg[1]
       IN  IF out.kind # "list" \/ out.items = <<>>
           THEN exc = "Exception" /\ ret = <<ScriptOf(fn), out>>
           ELSE LET data == out.items[1]
                IN  /\ exc # "Exception"
                    /\ (fn = "mint.munsell_color_to_xyY") => (exc = "" /\ ret = data)
                    /\ (fn = "mint.munsell_color_to_rgb")
                       => (exc = "" /\ ret = mint_munsell_color_to_rgb(JsonList(<<data>>)).val)
                    /\ (fn \in {"mint.rgb_to_munsell_specification",
                                "mint.xyY_to_munsell_specification"} /\ Len(data) = 3)
                       => (exc = "" /\ ret = _to_colorlab_specification(data))

\* A list of two different items: the result is that of the first.
C11_Witness ==
    /\ fn = "mint.xyY_to_munsell_specification"
    /\ arg[1].kind = "list"
    /\ arg[1].items = <<<<25 * U, 5 * U, 8 * U>>, <<70 * U, -U, 0>>>>
    /\ exc = ""
    /\ ret = <<5 * U, 5 * U, 8 * U, 5 * U>>

\* C12: minterpol.munsell_color_to_rgb returns (NaN, NaN, NaN) when the first
\* component of the script's result is 'NA', and otherwise the script's r, g,
\* b divided by 255: for components in 0..255 every returned component is in
\* [0, 1].
C12_RgbOrNaN ==
    (fn = "mint.munsell_color_to_rgb" /\ arg[1].kind = "list" /\ arg[1].items # <<>>)
    => LET data == arg[1].items[1]
       IN  /\ exc = ""
           /\ data[1] = NA => ret = <<NaN, NaN, NaN>>
           /\ data[1] # NA =>
                \A i \in 1..3 :
                    /\ ret[i] * 255 <= data[i] * U
                    /\ data[i] * U < (ret[i] + 1) * 255
                    /\ (data[i] >= 0 /\ data[i] <= 255) => (ret[i] >= 0 /\ ret[i] <= U)

\* r, g, b = 0, 128, 255 came back as 0, 0.50196, 1.
C12_Witness ==
    /\ fn = "mint.munsell_color_to_rgb"
    /\ arg[1].kind = "list"
    /\ Len(arg[1].items) >= 1
    /\ arg[1].items[1] = <<0, 128, 255>>
    /\ ret = <<0, 501960, U>>

DigitValue(c) == CHOOSE d \in 0..9 : DigitChars[d + 1] = c

IsNumeralChar(c) == c = "." \/ \E d \in 1..10 : DigitChars[d] = c

RECURSIVE IntPart(_, _)
IntPart(str, acc) ==
    IF str = <<>> \/ Head(str) = "." THEN acc
    ELSE IntPart(Tail(str), 10 * acc + DigitValue(Head(str)))

RECURSIVE AfterDot(_)
AfterDot(str) ==
    IF str = <<>> THEN <<>>
    ELSE IF Head(str) = "." THEN Tail(str)
    ELSE AfterDot(Tail(str))

RECURSIVE FracPart(_, _)
FracPart(str, weight) ==
    IF str = <<>> \/ weight = 0 THEN 0
    ELSE DigitValue(Head(str)) * weight + FracPart(Tail(str), weight \div 10)

\* The number a numeral denotes, in millionths.
NumeralValue(str) == IntPart(str, 0) * U + FracPart(AfterDot(str), 100000)

Flush(cur) == IF cur = <<>> THEN <<>> ELSE <<NumeralValue(cur)>>

\* The numbers denoted by the numerals of a string, in order.
RECURSIVE Numerals(_, _)
Numerals(str, cur) ==
    IF str = <<>> THEN Flush(cur)
    ELSE IF IsNumeralChar(Head(str)) THEN Numerals(Tail(str), Append(cur, Head(str)))
    ELSE Flush(cur) \o Numerals(Tail(str), <<>>)

\* C13: with truncate=True normalized_color and hue_data strip only an
\* all-zero fractional part: every numeral of the returned strings denotes
\* the same number as the numeral produced with truncate=False, for rounding
\* 0, 1, 2, None and 'renotation'.
C13_TruncateKeepsNumbers ==
    (/\ fn = "normalized_color_all"
     /\ arg[3]
     /\ exc = ""
     /\ arg[2].kind = "int" => arg[2].n \in 0..2)
    => /\ Numerals(ret.color, <<>>)
            = Numerals(normalized_color_all(arg[1], arg[2], FALSE, arg[4]).val.color, <<>>)
       /\ Numerals(ret.data.total_hue, <<>>)
            = Numerals(normalized_color_all(arg[1], arg[2], FALSE, arg[4]).val.data.total_hue, <<>>)

\* The hue_index a call was given.
HueIndexArg ==
    IF fn \in {"normalized_color", "normalized_color_all"} THEN arg[1][4] ELSE arg[1]

\* C14: normalized_hue, normalized_color, hue_name_from_hue_index and
\* astm_hue raise ValueError whenever hue_index is not an integer in [0, 10]
\* (NaN counting as 0): a non-integral, negative or too large hue_index never
\* yields a result.
C14_BadHueIndexRaises ==
    (/\ fn \in {"normalized_hue", "normalized_color", "normalized_color_all",
                "hue_name_from_hue_index", "astm_hue"}
     /\ HueIndexArg \notin {NaN, 0} \cup HueIndexes)
    => exc = "ValueError"

RenotationShades == {2500000, 5 * U, 7500000, 10 * U}

RenotationCall ==
    /\ fn \in {"normalized_hue", "normalized_color"}
    /\ HueIndexArg \in HueIndexes
    /\ exc = ""
    /\ IF fn = "normalized_hue"
       THEN arg[3] = RoundStr("renotation") /\ arg[2] >= 0 /\ arg[2] <= 10 * U
       ELSE arg[2] = RoundStr("renotation") /\ arg[1][1] >= 0 /\ arg[1][1] <= 10 * U

C18_LowChromaNeutral ==
    (/\ fn = "normalized_color_all"
     /\ arg[2] = RoundStr("renotation")
     /\ arg[1][4] \in HueIndexes
     /\ exc = ""
     /\ RoundHalfEven(arg[1][3], 2 * U) < 2 * U)
    => /\ IsNaN(ret.spec[1]) /\ IsNaN(ret.spec[3]) /\ IsNaN(ret.spec[4])
       /\ Head(ret.color) = "N"
       /\ \A i \in 1..Len(ret.color) : ret.color[i] # "/"

\* The Munsell value of the Y of the array at ref.
ValueAt(ref) == new_Y_to_munsell_value(frame.curve, heap[ref][3])

\* A running or finished call of _adjust_value_up.
InAdjustUp == fn = "_adjust_value_up" /\ pc \in {"up_probe", "done"}

\* No Y on the way from Y to 0.2 in 100 equal steps has a value of 1 or more.
NoProbeReachesOne(curve, Y) ==
    \A k \in 1..100 :
        ~PyLe(U, new_Y_to_munsell_value(
                    curve, IF IsNaN(Y) THEN NaN ELSE Y + (k * (200000 - Y)) \div 100))

\* C16: _adjust_value_up makes at most 100 probes, the k-th at k hundredths
\* of the way from the input Y to 0.2.  When it returns it returns either
\* the input array itself, unprobed, because Y = 0 or its value is already
\* 1 or more, or a copy with the same x and y whose Y has a value in
\* [1, 10], which is the value returned with it.  It raises RuntimeError
\* when the value of the input exceeds 10 or when no probe reaches 1, and
\* raises nothing else.  The caller's array is never modified.
C16_AdjustValueUp ==
    InAdjustUp =>
        LET xyY == arg[1]
            Y == xyY[3]
            value == new_Y_to_munsell_value(arg[2], Y)
        IN  /\ heap[1] = xyY
            /\ frame.probes <= 100
            /\ frame.probes > 0 =>
                /\ ~IsNaN(Y) => 100 * (frame.Y_temp - Y) = frame.probes * (200000 - Y)
                /\ IsNaN(Y) => IsNaN(frame.Y_temp)
            /\ pc = "done" =>
                /\ exc \in {"", "RuntimeError"}
                /\ PyLt(10 * U, value) => exc = "RuntimeError"
                /\ (Y # 0 /\ ~PyLe(U, value) /\ NoProbeReachesOne(arg[2], Y))
                        => exc = "RuntimeError"
                /\ exc = "" =>
                    \/ /\ ret[1] = 1
                       /\ frame.probes = 0
                       /\ ret[2] = value
                       /\ Y = 0 \/ PyLe(U, value)
                    \/ /\ ret[1] # 1
                       /\ heap[ret[1]][1] = xyY[1]
                       /\ heap[ret[1]][2] = xyY[2]
                       /\ heap[ret[1]][3] = frame.Y_temp
                       /\ ret[2] = ValueAt(ret[1])
                       /\ PyLe(U, ret[2])
                       /\ PyLe(ret[2], 10 * U)

\* _adjust_value_up returned a copy after several probes.
C16_Witness ==
    /\ fn = "_adjust_value_up"
    /\ pc = "done"
    /\ exc = ""
    /\ ret[1] = 2
    /\ frame.probes > 1
    /\ heap[2][3] > heap[1][3]

\* A running or finished call of safe_xyY_to_munsell_specification.
InSafe == fn = "safe_xyY_to_munsell_specification" /\ pc # "idle"

\* What holds at every position of safe_xyY_to_munsell_specification.
SafeInv ==
    InSafe =>
        /\ pc = "up_probe" => frame.converted = 0
        /\ pc = "convert" => frame.converted = 0 /\ ~PyLt(ValueAt(frame.xyY_adjusted), U)
        /\ pc = "down_probe" => frame.converted >= 1 /\ frame.first.out.exc # ""
        /\ frame.converted >= 1 =>
            ~PyLt(new_Y_to_munsell_value(frame.curve, frame.first.xyY[3]), U)
        /\ frame.converted >= 2 => frame.first.out.exc # ""
        /\ pc = "done" =>
            /\ exc \in {"", "RuntimeError"}
            /\ exc = "" =>
                IF frame.converted = 0
                THEN /\ PyLt(ValueAt(frame.xyY_adjusted), U)
                     /\ ret = <<NaN, ValueAt(frame.xyY_adjusted), NaN, NaN>>
                ELSE frame.last.out = Ok(ret)

\* What holds of every step of safe_xyY_to_munsell_specification: the
\* conversion that follows the adjustment up is made once, on the adjusted
\* colour, and the probing downward starts from its failure only.
SafeStep ==
    /\ (InSafe /\ pc = "convert") =>
        /\ pc' # "convert"
        /\ frame'.converted = 1
        /\ frame'.first.xyY = heap[frame.xyY_adjusted]
        /\ pc' = "down_probe" => frame'.first.out.exc # ""
    /\ (InSafe /\ pc' = "down_probe") => pc \in {"convert", "down_probe"}
    /\ (InSafe /\ pc' = "convert") => pc \in {"idle", "up_probe"}

\* The calls of deprecated.py alone, with an interpreter that keeps running
\* a call it has begun.
SafeNext ==
    \/ Call__adjust_value_up
    \/ Call_safe_xyY_to_munsell_specification
    \/ Call__adjust_value_down
    \/ Probe_up
    \/ Convert
    \/ Probe_down
    \/ Call__adjust_to_macadam_limits
    \/ Probe_macadam
    \/ Return

SafeSpec ==
    /\ Init
    /\ [][SafeNext]_vars
    /\ WF_vars(Probe_up)
    /\ WF_vars(Convert)
    /\ WF_vars(Probe_down)
    /\ WF_vars(Probe_macadam)

\* C17: safe_xyY_to_munsell_specification adjusts Y up first, then calls
\* the colour package's conversion once on the adjusted colour, and probes
\* downward only after that call raised.  It returns the neutral
\* [NaN, value, NaN, NaN] when the adjusted value is below 1 and makes no
\* conversion then; every other call ends, either returning the
\* specification of a conversion that succeeded or raising RuntimeError:
\* the colour package's own errors never escape.
C17_SafeConversion ==
    /\ []SafeInv
    /\ [][SafeStep]_vars
    /\ (fn = "safe_xyY_to_munsell_specification" /\ pc # "idle") ~> (pc = "done")

\* The first conversion raised and a later probe downward converted.
C17_Witness ==
    /\ fn = "safe_xyY_to_munsell_specification"
    /\ pc = "done"
    /\ exc = ""
    /\ frame.converted >= 3
    /\ frame.first.out.exc # ""
    /\ frame.last.out = Ok(ret)
    /\ heap[frame.xyY_adjusted][3] < arg[1][3]

\* v clamped to [lo, hi].
Clamped(v, lo, hi) == IF v < lo THEN lo ELSE IF v > hi THEN hi ELSE v

\* C19: _clamp_int8(v) is int(v) clamped to [-128, 127], so the a and b that
\* jch_to_munsell_specification hands to the transform are int(lab[1]) and
\* int(lab[2]) clamped to that range, and the very integers when they are
\* in range already.
C19_ClampInt8 ==
    (fn = "jch_to_munsell_specification" /\ pc = "done") =>
        /\ frame.a = Clamped(PyInt(arg[1][2]), -128, 127)
        /\ frame.b = Clamped(PyInt(arg[1][3]), -128, 127)

\* A call of _to_munsell_specification with renotation of a chromatic colour.
ChromaticRenotation ==
    /\ fn = "_to_munsell_specification"
    /\ pc = "done"
    /\ arg[2]
    /\ ~IsNaN(heap[1][1])

\* The k-th of the four candidates of the raw spec, in the order (c0, h0),
\* (c0, h1), (c1, h0), (c1, h1), normalized onto the renotation grid.
Candidate(raw, k) ==
    LET c0 == 2 * U * (raw[3] \div (2 * U))
        h0 == 2500000 * (raw[1] \div 2500000)
        c == IF k \in {1, 2} THEN c0 ELSE c0 + 2 * U
        h == IF k \in {1, 3} THEN h0 ELSE h0 + 2500000
    IN  normalized_color(<<h, raw[2], c, raw[4]>>, RoundStr("renotation"), {}).val

\* The computed squared distance of candidate j is less than that of k.
Nearer(raw, lab, errs, j, k) ==
    LET dj == SqDist(munsell_specification_to_uplab(Candidate(raw, j)), lab)
        dk == SqDist(munsell_specification_to_uplab(Candidate(raw, k)), lab)
    IN  dj < dk \/ (dj = dk /\ j \notin errs /\ k \in errs)

\* The raw value as the renotation carries it.
MappedValues(value) ==
    IF value < U THEN {U}
    ELSE IF value > 9 * U /\ value < 9900000 THEN {9 * U}
    ELSE NearestMultiples(value, U)

\* C20: for a chromatic raw spec the renotation spec is one of the four
\* candidates (c0 = 2 * floor(chroma / 2), c1 = c0 + 2, h0 = 2.5 *
\* floor(hue_shade / 2.5), h1 = h0 + 2.5, each normalized onto the grid): one
\* that no candidate is nearer to the input (a*, b*) than, and the earliest
\* of those that are equally near; its value is the raw value mapped: below
\* 1 to 1, strictly between 9 and 9.9 to 9, otherwise to the nearest integer.
C20_ClosestCandidate ==
    ChromaticRenotation =>
        LET raw == heap[1]
            ren == heap[ret[2]]
        IN  /\ ren[2] \in MappedValues(raw[2])
            /\ \E k \in 1..4 :
                /\ ren = [Candidate(raw, k) EXCEPT ![2] = ren[2]]
                /\ \A j \in 1..4 : ~Nearer(raw, arg[1], arg[3], j, k)
                /\ \A j \in 1..(k - 1) : Nearer(raw, arg[1], arg[3], k, j)

\* Two different candidates were computed equally near, nearer than the
\* other two, and the earlier one came back.
C20_Witness ==
    /\ ChromaticRenotation
    /\ \E j \in 1..4, k \in 1..4 :
        /\ j < k
        /\ Candidate(heap[1], j) # Candidate(heap[1], k)
        /\ ~Nearer(heap[1], arg[1], arg[3], j, k)
        /\ ~Nearer(heap[1], arg[1], arg[3], k, j)
        /\ \A i \in 1..4 : ~Nearer(heap[1], arg[1], arg[3], i, j)
        /\ heap[ret[2]] = [Candidate(heap[1], j) EXCEPT ![2] = heap[ret[2]][2]]

\* The longest prefix of str made of numeral characters.
RECURSIVE TakeNumeral(_)
TakeNumeral(str) ==
    IF str = <<>> \/ ~IsNumeralChar(Head(str)) THEN <<>>
    ELSE <<Head(str)>> \o TakeNumeral(Tail(str))

\* str without its first n characters.
Drop(str, n) == SubSeq(str, n + 1, Len(str))

\* str is a numeral of the number x of a normalized spec: of x itself, or,
\* where no rounding was asked for, of x to the two decimals printed.
Denotes(str, x, rounding) ==
    /\ str # <<>>
    /\ TakeNumeral(str) = str
    /\ IF rounding.kind = "none" THEN 2 * Abs(NumeralValue(str) - x) <= 10000
       ELSE NumeralValue(str) = x

\* color is 'N <value>' for a neutral spec and
\* '<hue_shade><hue_name> <value>/<chroma>' for a chromatic one.
Describes(color, spec, rounding) ==
    IF IsNaN(spec[4])
    THEN /\ Len(color) >= 3
         /\ color[1] = "N"
         /\ color[2] = " "
         /\ Denotes(Drop(color, 2), spec[2], rounding)
    ELSE LET h == TakeNumeral(color)
             name == Chars(COLORLAB_HUE_NAMES[PyInt(spec[4])])
             r == Drop(color, Len(h))
             r2 == Drop(r, Len(name) + 1)
             v == TakeNumeral(r2)
             r3 == Drop(r2, Len(v))
         IN  /\ Denotes(h, spec[1], rounding)
             /\ Len(r) >= Len(name) + 1
             /\ SubSeq(r, 1, Len(name) + 1) = name \o <<" ">>
             /\ Denotes(v, spec[2], rounding)
             /\ r3 # <<>>
             /\ Head(r3) = "/"
             /\ Denotes(Tail(r3), spec[3], rounding)

\* The hue data are those of the spec and of the hue part of the string.
DataDescribes(data, color, spec) ==
    IF IsNaN(spec[4])
    THEN data.hue_name = "N" /\ data.total_hue = <<"N">> /\ IsNaN(data.astm_hue)
    ELSE /\ data.hue_name = COLORLAB_HUE_NAMES[PyInt(spec[4])]
         /\ Len(color) > Len(data.total_hue)
         /\ SubSeq(color, 1, Len(data.total_hue) + 1) = data.total_hue \o <<" ">>
         /\ \E k \in 0..9 :
              /\ ASTM_ORDER[k + 1] = data.hue_name
              /\ data.astm_hue = 10 * k * U + spec[1]

\* C21: the color string of normalized_color is
\* '<hue_shade><hue_name> <value>/<chroma>' for a chromatic result and
\* 'N <value>' for a neutral one, its numerals those of the normalized spec
\* and hue_name = COLORLAB_HUE_NAMES[hue_index - 1]; with out='all' string,
\* spec and hue data describe the same color; out='spec' returns the spec
\* alone and out='color' the string alone.
C21_ColorString ==
    /\ (fn = "normalized_color_all" /\ exc = "")
        => /\ Describes(ret.color, ret.spec, arg[2])
           /\ DataDescribes(ret.data, ret.color, ret.spec)
    /\ (fn = "normalized_color_out" /\ exc = "" /\ arg[5] = "color")
        => Describes(ret, normalized_color(arg[1], arg[2], arg[4]).val, arg[2])
    /\ (fn = "normalized_color_out" /\ exc = "" /\ arg[5] = "spec")
        => /\ Len(ret) = 4
           /\ normalized_color_all(arg[1], arg[2], arg[3], arg[4]).exc = ""
                => ret = normalized_color_all(arg[1], arg[2], arg[3], arg[4]).val.spec

\* A running or finished call of _adjust_value_down.
InAdjustDown == fn = "_adjust_value_down" /\ pc \in {"down_probe", "done"}

\* The value _adjust_value_down starts from: its argument, or that of Y.
DownValue == IF arg[3] = None THEN new_Y_to_munsell_value(arg[2], arg[1][3]) ELSE arg[3]

\* What holds at every position of _adjust_value_down.
DownInv ==
    InAdjustDown =>
        LET xyY == arg[1]
            Y == xyY[3]
            refused == PyLt(Y, 800000) \/ PyLt(10 * U, DownValue)
        IN  /\ heap[1] = xyY
            /\ frame.probes <= 100
            /\ frame.converted <= frame.probes
            /\ pc = "down_probe" => (~refused /\ frame.converted = frame.probes)
            /\ (frame.probes > 0 /\ ~IsNaN(Y)) =>
                /\ 100 * (frame.Y_temp - Y) = frame.probes * (800000 - Y)
                /\ frame.Y_temp <= Y
                /\ frame.Y_temp >= 800000
            /\ frame.converted > 0 => frame.last.xyY = <<xyY[1], xyY[2], frame.Y_temp>>
            /\ pc = "done" =>
                /\ exc \in {"", "RuntimeError"}
                /\ refused => (exc = "RuntimeError" /\ frame.probes = 0)
                /\ (exc = "RuntimeError" /\ ~refused) =>
                    \/ frame.probes = 100 /\ frame.converted = 100 /\ frame.last.out.exc # ""
                    \/ /\ frame.converted = frame.probes - 1
                       /\ PyLt(10 * U, new_Y_to_munsell_value(arg[2], frame.Y_temp))
                /\ exc = "" =>
                    /\ ret[1] # 1
                    /\ heap[ret[1]] = <<xyY[1], xyY[2], frame.Y_temp>>
                    /\ ret[2] = new_Y_to_munsell_value(arg[2], frame.Y_temp)
                    /\ frame.converted = frame.probes
                    /\ frame.last = [xyY |-> heap[ret[1]], out |-> Ok(ret[3])]
                    /\ ~PyLt(Y, heap[ret[1]][3])
                    /\ ~PyLt(heap[ret[1]][3], 800000)

\* What holds of every step of _adjust_value_down: each step is one more
\* probe; the call goes on only after a conversion that raised and ends at
\* the first that succeeds.
DownStep ==
    (fn = "_adjust_value_down" /\ pc = "down_probe") =>
        /\ frame'.probes = frame.probes + 1
        /\ pc' = "down_probe" =>
            (frame'.converted = frame.converted + 1 /\ frame'.last.out.exc # "")
        /\ (frame'.converted = frame.converted + 1 /\ frame'.last.out.exc = "") =>
            (pc' = "done" /\ exc' = "")

\* C22: _adjust_value_down raises RuntimeError, without a probe, if Y < 0.8
\* or the Munsell value exceeds 10.  Otherwise it makes at most 100 probes,
\* the k-th at k hundredths of the way from the input Y down to 0.8, so the
\* 100th at 0.8 itself; it ends at the first probe whose conversion
\* succeeds, returning that colour, its value and that conversion's spec,
\* and raises RuntimeError if all 100 conversions fail or a probe's value
\* exceeds 10, and raises nothing else.  The returned Y is not above the
\* input Y nor below 0.8, x and y are unchanged, the caller's array is not
\* modified, and every call ends.
C22_AdjustValueDown ==
    /\ []DownInv
    /\ [][DownStep]_vars
    /\ (fn = "_adjust_value_down" /\ pc # "idle") ~> (pc = "done")

\* _adjust_value_down returned the colour of its third probe, after two
\* conversions that raised.
C22_Witness ==
    /\ fn = "_adjust_value_down"
    /\ pc = "done"
    /\ exc = ""
    /\ frame.probes = 3
    /\ heap[ret[1]][3] < arg[1][3]
    /\ heap[ret[1]][3] > 800000

\* The luminosity of the k-th colour _adjust_to_macadam_limits probes.
MacAdamProbe(k) == probe_Y(arg[1][3], k, probe_step(Y_MACADAM_TARGET, arg[1][3]))

\* C23: _adjust_to_macadam_limits returns its argument, unchanged, when it
\* is within the MacAdam limits.  Otherwise it makes at most 100 equally
\* spaced probes and returns the first probed colour within the limits,
\* whose Y is not below the input Y and not above 0.5, with x and y
\* unchanged; it raises RuntimeError when no probe is within the limits.
C23_MacAdamLimits ==
    (fn = "_adjust_to_macadam_limits" /\ pc = "done") =>
        LET xyY == arg[1]
            limits == arg[2]
        IN  /\ exc \in {"", "RuntimeError"}
            /\ is_within_macadam_limits(limits, xyY[3]) =>
                (exc = "" /\ ret = <<1>> /\ heap[1] = xyY /\ frame.probes = 0)
            /\ ~is_within_macadam_limits(limits, xyY[3]) =>
                /\ frame.probes \in 1..100
                /\ \A k \in 0..(frame.probes - 2) :
                       ~is_within_macadam_limits(limits, MacAdamProbe(k))
                /\ exc = "RuntimeError" =>
                    /\ frame.probes = 100
                    /\ ~is_within_macadam_limits(limits, MacAdamProbe(99))
                /\ exc = "" =>
                    LET Y_out == heap[ret[1]][3]
                    IN  /\ Y_out = MacAdamProbe(frame.probes - 1)
                        /\ is_within_macadam_limits(limits, Y_out)
                        /\ heap[ret[1]][1] = xyY[1]
                        /\ heap[ret[1]][2] = xyY[2]
                        /\ Y_out >= xyY[3]
                        /\ Y_out <= Y_MACADAM_TARGET

====
